---- MODULE Spec2Model ----
(***************************************************************************)
(* A model of the registry-entry client of s5-js: S5Client.getEntry,       *)
(* publishEntry and createEntry, the transport wrapper customInstance and  *)
(* the text encoding of entries, run against a portal that stores one      *)
(* entry per public key; the subscription channel of subscribeToEntry.     *)
(*                                                                         *)
(* Each part of the client has its own variables and its own               *)
(* specification; a specification leaves the other parts' variables as     *)
(* they are.                                                               *)
(*                                                                         *)
(* Byte strings are sequences of numbers 0..255, base64url text is a       *)
(* sequence of alphabet indices 0..63.  An optional value (a JavaScript    *)
(* value that may be undefined) is a sequence of length 0 or 1.            *)
(***************************************************************************)
EXTENDS Integers, Sequences, FiniteSets, TLC

\* ------------------------------------------------------------------ bounds
\* the number of calls the callers make, of any method and of createEntry alone
MaxCalls == 2
MaxWriterCalls == 3

\* two key pairs, so that an entry can belong to another key than the caller's;
\* two callers, so that two calls can overlap; two CIDs to point an entry at
\* (and CID 0, published before the first call); two values of createEntry's
\* revision parameter, the default 0 and another one
KeyPairs == {1, 2}
Procs == {1, 2}
Cids == {1, 2}
InitialRevisions == {0, 1}

VARIABLES
    calls,      \* calls[p]: the registry call process p is running, or has finished
    registry,   \* registry[k]: the wire entry the portal serves for key pair k's public key
    accepted,   \* the publishes the portal accepted, in order
    callsLeft,  \* number of calls the callers will still make
    overlapped  \* TRUE once a call has started while another one was in progress

\* the subscription channel of subscribeToEntry
VARIABLES
    sub,        \* the subscribeToEntry call: where it stands, its argument, its result
    socket,     \* the WebSocket: readyState, what was sent on it, close() requests
    listeners,  \* the callbacks registered through listen(), in order
    frames,     \* the binary frames that arrived on the socket, in order
    delivered,  \* the callback invocations, in order
    endCalls    \* number of end() calls made

\* the text encoding on its own: bytes encoded and decoded again, an entry
\* put into its JSON form and read back
VARIABLES
    codec

\* the uploads of large files: uploads[p] is the uploadLargeFileRequest call
\* of process p, the tus Upload it made and the promise it returned
VARIABLES
    uploads

\* the resolution of the portal URL in the older client: the static
\* resolvedPortalUrl, the promises resolvePortalUrl has made, the microtask
\* queue and the initPortalUrl/portalUrl calls
VARIABLES
    resolution

\* the executeRequest calls of the older client: exec[p] is the call of
\* process p, the requests it handed to axios and its loginFn invocations
VARIABLES
    exec

\* the S5Client objects made with new S5Client(...): instances[p] is the one
\* process p made, or the error its constructor threw, and the option
\* handling of the method p then called on it
VARIABLES
    instances

registryVars == <<calls, registry, accepted, callsLeft, overlapped>>
channelVars == <<sub, socket, listeners, frames, delivered, endCalls>>

\* what the registry methods leave alone
outsideRegistry == <<channelVars, codec, uploads, resolution, exec, instances>>

\* what the subscription channel leaves alone
outsideChannel == <<registryVars, codec, uploads, resolution, exec, instances>>

\* what the text encoding leaves alone
outsideCodec == <<registryVars, channelVars, uploads, resolution, exec, instances>>

\* what the uploads leave alone
outsideUpload == <<registryVars, channelVars, codec, resolution, exec, instances>>

\* what the resolution of the portal URL leaves alone
outsideResolution == <<registryVars, channelVars, codec, uploads, exec, instances>>

\* what executeRequest leaves alone
outsideExec == <<registryVars, channelVars, codec, uploads, resolution, instances>>

\* what the constructor and the option handling leave alone
outsideInstances == <<registryVars, channelVars, codec, uploads, resolution, exec>>

vars == <<registryVars, channelVars, codec, uploads, resolution, exec, instances>>

Undefined == <<>>
Some(x) == <<x>>

\* ------------------------------------------------ text encoding of bytes
\* index of the letter u in the base64url alphabet: the multibase prefix
MultibasePrefix == 46

RECURSIVE Sextets(_)
Sextets(b) ==
    IF Len(b) = 0 THEN <<>>
    ELSE IF Len(b) = 1 THEN <<b[1] \div 4, (b[1] % 4) * 16>>
    ELSE IF Len(b) = 2 THEN
        <<b[1] \div 4, (b[1] % 4) * 16 + (b[2] \div 16), (b[2] % 16) * 4>>
    ELSE <<b[1] \div 4, (b[1] % 4) * 16 + (b[2] \div 16),
           (b[2] % 16) * 4 + (b[3] \div 64), b[3] % 64>>
         \o Sextets(SubSeq(b, 4, Len(b)))

RECURSIVE Octets(_)
Octets(s) ==
    IF Len(s) < 2 THEN <<>>
    ELSE IF Len(s) = 2 THEN <<s[1] * 4 + (s[2] \div 16)>>
    ELSE IF Len(s) = 3 THEN
        <<s[1] * 4 + (s[2] \div 16), (s[2] % 16) * 16 + (s[3] \div 4)>>
    ELSE <<s[1] * 4 + (s[2] \div 16), (s[2] % 16) * 16 + (s[3] \div 4),
           (s[3] % 4) * 64 + s[4]>>
         \o Octets(SubSeq(s, 5, Len(s)))

\* multiformats base64url: the prefix followed by the unpadded text
base64url_encode(d) == <<MultibasePrefix>> \o Sextets(d)
base64url_decode(s) == Octets(Tail(s))

\* base64urlEncode leaving the multibase prefix on
base64urlEncode_KeepPrefix(d) == base64url_encode(d)

base64urlEncode(d) == Tail(base64url_encode(d))
base64urlDecode(d) == base64url_decode(<<MultibasePrefix>> \o d)

\* ------------------------------------------------------- keys and entries
\* the public key of a key pair: the Ed25519 tag byte and the raw key
publicKey(kp) == <<237, kp>>

\* CID.toRegistryEntry(): the bytes a registry entry carries for a CID
toRegistryEntry(cid) == <<90>> \o [i \in 1..cid |-> 100 + cid]

\* the signature of key pair kp over (data, revision): only kp produces it
Signature(kp, data, revision) == <<kp>> \o data \o <<revision>>

signRegistryEntry(kp, data, revision) ==
    [pk |-> publicKey(kp), revision |-> revision, data |-> data,
     signature |-> Signature(kp, data, revision)]

verifyRegistryEntry(e) ==
    \E kp \in KeyPairs :
        /\ e.pk = publicKey(kp)
        /\ e.signature = Signature(kp, e.data, e.revision)

equalBytes(a, b) == a = b

\* an entry of kp whose signature was made over another revision
ForgedEntry(kp, cid, revision) ==
    [signRegistryEntry(kp, toRegistryEntry(cid), revision)
        EXCEPT !.signature = Signature(kp, toRegistryEntry(cid), revision + 1)]

\* the JSON body of the registry endpoints
WireEntry(e) ==
    [pk |-> base64urlEncode(e.pk), revision |-> e.revision,
     data |-> base64urlEncode(e.data), signature |-> base64urlEncode(e.signature)]

\* ---------------------------------------------------------------- errors
\* the Error thrown by throwValidationError
throwValidationError(name) ==
    [name |-> "ValidationError", message |-> name]

\* what axios rejects with: response is undefined when no response arrived
AxiosError(outcome) ==
    [name |-> "AxiosError",
     message |-> IF outcome.kind = "response" THEN "Request failed" ELSE "Network Error",
     response |-> IF outcome.kind = "response"
                  THEN Some([status |-> outcome.status]) ELSE Undefined]

S5Error(message, statusCode) ==
    [name |-> "S5Error", message |-> message, statusCode |-> statusCode]

\* the JavaScript expression e.response?.status
ResponseStatus(e) ==
    IF "response" \in DOMAIN e
    THEN (IF e.response = Undefined THEN Undefined ELSE Some(e.response[1].status))
    ELSE Undefined

\* ------------------------------------------------------------- transport
NetworkFailure == [kind |-> "network", status |-> 0, data |-> Undefined]
HttpResponse(status, data) == [kind |-> "response", status |-> status, data |-> data]

Resolved(data) == [ok |-> TRUE, data |-> data, error |-> Undefined]
Rejected(e) == [ok |-> FALSE, data |-> Undefined, error |-> Some(e)]

\* axios: a 2xx response resolves, anything else rejects with an AxiosError
axios(outcome) ==
    IF outcome.kind = "response" /\ outcome.status \in 200..299
    THEN Resolved(outcome.data)
    ELSE Rejected(AxiosError(outcome))

\* customInstance: .then(({data}) => data).catch(error => throw new S5Error(...));
\* the registry methods never call cancel() on the promise, so the branch of
\* the catch for a cancelled request is not taken
customInstance(outcome) ==
    LET r == axios(outcome) IN
    IF r.ok THEN Resolved(r.data)
    ELSE Rejected(S5Error(r.error[1].message, ResponseStatus(r.error[1])))

\* the generated bindings hand the request to customInstance
getS5Registry(outcome) == customInstance(outcome)
postS5Registry(outcome) == customInstance(outcome)

\* ----------------------------------------------------------- call records
NoResult == [kind |-> "none", value |-> Undefined, error |-> Undefined]
Return(v) == [kind |-> "return", value |-> v, error |-> Undefined]
Throw(e) == [kind |-> "throw", value |-> Undefined, error |-> Some(e)]

IdleCall ==
    [pc |-> "idle", op |-> "none", kp |-> 0, cid |-> 0, revision |-> 0,
     arg |-> Undefined, resp |-> Undefined, postResp |-> Undefined,
     existing |-> FALSE,
     entry |-> Undefined, signedEntry |-> Undefined, reqs |-> <<>>,
     result |-> NoResult]

Done(c, result) == [c EXCEPT !.pc = "done", !.result = result]

\* publishEntry sending the entry with the next revision
PostRequest_NextRevision(e) ==
    [method |-> "POST", pk |-> <<>>,
     body |-> Some(WireEntry([e EXCEPT !.revision = @ + 1]))]

GetRequest(pk) == [method |-> "GET", pk |-> base64urlEncode(pk), body |-> Undefined]
PostRequest(e) == [method |-> "POST", pk |-> <<>>, body |-> Some(WireEntry(e))]

\* --------------------------------------------------------------- getEntry
DecodeEntry(ret) ==
    [pk |-> base64urlDecode(ret.pk), revision |-> ret.revision,
     data |-> base64urlDecode(ret.data), signature |-> base64urlDecode(ret.signature)]

\* getEntry without the signature check
getEntryAccepts_NoVerify(signedEntry) == TRUE

getEntryAccepts(signedEntry) == verifyRegistryEntry(signedEntry)

\* the catch block turning every error into the absent value
getEntryCatch_Swallow(e) == Return(Undefined)

\* the catch block: a 404 becomes the absent value, anything else is re-thrown
getEntryCatch(e) ==
    IF ResponseStatus(e) = Some(404) THEN Return(Undefined) ELSE Throw(e)

\* getEntry from the transport's outcome on
getEntry(outcome) ==
    LET ret == getS5Registry(outcome) IN
    IF ~ret.ok THEN getEntryCatch(ret.error[1])
    ELSE LET signedEntry == DecodeEntry(ret.data[1]) IN
         IF ~getEntryAccepts(signedEntry)
         THEN getEntryCatch(throwValidationError("signedEntry"))
         ELSE Return(Some(signedEntry))

\* ----------------------------------------------------------- publishEntry
\* publishEntry without the signature check
publishEntryAccepts_NoVerify(signedEntry) == TRUE

publishEntryAccepts(signedEntry) == verifyRegistryEntry(signedEntry)

\* publishEntry up to the request it issues
publishEntry(c, signedEntry) ==
    IF ~publishEntryAccepts(signedEntry)
    THEN Done(c, Throw(throwValidationError("signedEntry")))
    ELSE [c EXCEPT !.pc = "awaitPost", !.reqs = Append(@, PostRequest(signedEntry))]

\* publishEntry from the transport's outcome on
publishEntryResult(outcome) ==
    LET ret == postS5Registry(outcome) IN
    IF ret.ok THEN Return(ret.data) ELSE Throw(ret.error[1])

\* ------------------------------------------------------------ createEntry
newUnsignedEntry(kp, cid, revision) ==
    [pk |-> publicKey(kp), data |-> toRegistryEntry(cid), revision |-> revision,
     signature |-> <<>>]

\* createEntry without the comparison of public keys
keyMatches_NoCheck(kp, entry) == TRUE

keyMatches(kp, entry) == equalBytes(publicKey(kp), entry.pk)

\* createEntry without the comparison of the data
isUnchanged_Never(entry, newEntry) == FALSE

isUnchanged(entry, newEntry) == equalBytes(entry.data, newEntry)

\* createEntry without entry.revision++
updatedEntry_NoIncrement(entry, newEntry) == [entry EXCEPT !.data = newEntry]

\* entry.revision++; entry.data = newEntry
updatedEntry(entry, newEntry) ==
    [entry EXCEPT !.revision = @ + 1, !.data = newEntry]

\* createEntry going on as if nothing was thrown
getEntryThrew_Never(got) == FALSE

\* await this.getEntry(...): what getEntry throws leaves createEntry
getEntryThrew(got) == got.kind = "throw"

\* createEntry from the return of getEntry to the request publishEntry issues
createEntryAfterGet(c, got) ==
    IF getEntryThrew(got) THEN Done(c, got)
    ELSE
    LET existing == got.value # Undefined
        entry == IF existing THEN got.value[1]
                 ELSE newUnsignedEntry(c.kp, c.cid, c.revision)
        newEntry == toRegistryEntry(c.cid)
        c1 == [c EXCEPT !.existing = existing, !.entry = Some(entry)]
    IN  IF ~keyMatches(c.kp, entry)
        THEN Done(c1, Throw(throwValidationError("entry.pk")))
        ELSE IF existing /\ isUnchanged(entry, newEntry)
        THEN Done(c1, Return(Some(entry)))
        ELSE
        LET e1 == IF existing THEN updatedEntry(entry, newEntry) ELSE entry
            signedEntry == signRegistryEntry(c.kp, e1.data, e1.revision)
        IN  publishEntry([c1 EXCEPT !.entry = Some(e1),
                                    !.signedEntry = Some(signedEntry)],
                         signedEntry)

\* createEntry repeating a failed publish once
createEntryAfterPublish_Retry(c, pub) ==
    IF pub.kind = "throw" /\ Len(c.reqs) < 3
    THEN [c EXCEPT !.pc = "awaitPost", !.reqs = Append(@, c.reqs[Len(c.reqs)])]
    ELSE IF pub.kind = "throw" THEN Done(c, pub)
    ELSE Done(c, Return(c.signedEntry))

\* createEntry returning the entry whatever became of the publish
createEntryAfterPublish_Swallow(c, pub) == Done(c, Return(c.signedEntry))

\* createEntry after await this.publishEntry(signedEntry)
createEntryAfterPublish(c, pub) ==
    IF pub.kind = "throw" THEN Done(c, pub) ELSE Done(c, Return(c.signedEntry))

\* ----------------------------------------------------------------- portal
KeysOfText(t) == {k \in KeyPairs : base64urlEncode(publicKey(k)) = t}

\* the portal's answer to a read of the key with text form t
PortalRead(t) ==
    IF \E k \in KeysOfText(t) : registry[k] # Undefined
    THEN HttpResponse(200, registry[CHOOSE k \in KeysOfText(t) : registry[k] # Undefined])
    ELSE HttpResponse(404, Undefined)

GetOutcomes(t) == {PortalRead(t), HttpResponse(500, Undefined), NetworkFailure}

\* the outcomes of a write: an acknowledgement, an error status, no response
PostOutcomes ==
    {HttpResponse(200, Some("acknowledged")), HttpResponse(500, Undefined), NetworkFailure}

OtherKeyPair(k) == (k % Cardinality(KeyPairs)) + 1

\* what the portal may hold for key pair k before the client's first call:
\* nothing, an entry of k (for a CID published earlier, CID 0), an entry with a
\* bad signature, another key's entry
InitialStored(k) ==
    { Undefined,
      Some(WireEntry(signRegistryEntry(k, toRegistryEntry(0), 1))),
      Some(WireEntry(ForgedEntry(k, 1, 1))),
      Some(WireEntry(signRegistryEntry(OtherKeyPair(k), toRegistryEntry(1), 1))) }

\* the portal's contents before the client's first call
InitialRegistries ==
    { [k \in KeyPairs |-> IF k = 1 THEN s ELSE Undefined] : s \in InitialStored(1) }
    \cup { [k \in KeyPairs |-> Some(WireEntry(signRegistryEntry(k, toRegistryEntry(0), 1)))] }

\* the signed entries a caller hands to publishEntry
PublishArgs ==
    { signRegistryEntry(k, toRegistryEntry(2), 0) : k \in KeyPairs }
    \cup { ForgedEntry(1, 1, 0) }

\* ---------------------------------------------------------- parts at rest
\* the callers make no registry call
RegistryIdle ==
    /\ calls = [p \in Procs |-> IdleCall]
    /\ registry = [k \in KeyPairs |-> Undefined]
    /\ accepted = <<>>
    /\ callsLeft = 0
    /\ overlapped = FALSE

NoSocket ==
    [readyState |-> "NONE", opened |-> FALSE, sent |-> <<>>, closeRequests |-> 0]

\* subscribeToEntry has not been called
ChannelIdle ==
    /\ sub = [pc |-> "idle", publicKey |-> <<>>, key |-> <<>>, result |-> NoResult]
    /\ socket = NoSocket
    /\ listeners = <<>>
    /\ frames = <<>>
    /\ delivered = <<>>
    /\ endCalls = 0

\* nothing is being encoded
NoCodec ==
    [pc |-> "idle", x |-> <<>>, text |-> <<>>, back |-> <<>>,
     sent |-> Undefined, wire |-> Undefined, entry |-> Undefined]

CodecIdle == codec = NoCodec

\* no upload has been asked for
NoUpload ==
    [pc |-> "idle", size |-> 0, position |-> 0, chunks |-> 0,
     fed |-> <<>>, progress |-> <<>>,
     upload |-> Undefined, cid |-> Undefined,
     promise |-> "pending", settled |-> 0, result |-> NoResult]

UploadIdle == uploads = [p \in Procs |-> NoUpload]

\* the clients whose portal URL is asked for
Clients == {1, 2, 3, 4}

NoUrlCall ==
    [pc |-> "idle", op |-> "none", customPortalUrl |-> Undefined, awaiting |-> 0,
     afterFailure |-> FALSE, issued |-> 0, result |-> NoResult]

\* no portal URL has been asked for: the static resolvedPortalUrl is not set
NoResolution ==
    [resolvedPortalUrl |-> Undefined, promises |-> <<>>, microtasks |-> <<>>,
     sync |-> FALSE, calls |-> [c \in Clients |-> NoUrlCall]]

ResolutionIdle == resolution = NoResolution

\* executeRequest has not been called
NoExec ==
    [pc |-> "idle", config |-> [url |-> Undefined, loginFn |-> FALSE],
     sent |-> <<>>, answers |-> <<>>, logins |-> 0, loginOk |-> Undefined,
     result |-> NoResult]

ExecIdle == exec = [p \in Procs |-> NoExec]

\* a string is the sequence of its parts; the empty string has none
EmptyString == <<>>

\* no option is given
NoOptions ==
    [apiKey |-> Undefined, customCookie |-> Undefined, customUserAgent |-> Undefined,
     onUploadProgress |-> Undefined, onDownloadProgress |-> Undefined]

\* new S5Client(...) has not been called
NoInstance ==
    [pc |-> "none", class |-> "none", arg |-> EmptyString,
     portalUrl |-> Undefined, customPortalUrl |-> Undefined,
     clientOptions |-> NoOptions, result |-> NoResult,
     op |-> "none", def |-> NoOptions, customOptions |-> NoOptions,
     finalOptions |-> NoOptions, config |-> Undefined]

InstancesIdle == instances = [p \in Procs |-> NoInstance]

\* --------------------------------------------------- subscription channel
\* the number of frames the portal pushes, of listen() and of end() calls
MaxFrames == 3
MaxListeners == 2
MaxEnds == 2

\* the length subscribeToEntry expects of its publicKey argument
PublicKeyLength == 32

\* the key-type tag of Ed25519 keys
CID_HASH_TYPES_ED25519 == 237

\* the keys a caller passes: too short, as expected, with the tag already on
SubscribeKeys ==
    { [i \in 1..n |-> i] :
        n \in {PublicKeyLength - 1, PublicKeyLength, PublicKeyLength + 1} }

\* ensureBytes of @noble/curves: the bytes, or an error when the length is wrong
ensureBytes(title, bytes, expectedLength) ==
    IF Len(bytes) = expectedLength THEN Return(bytes)
    ELSE Throw([name |-> "Error", message |-> title])

concatBytes(a, b) == a \o b

\* Packer.pack of a small number and of a byte string (at most 255 bytes)
packInt(n) == <<n>>
packBytes(b) == <<196, Len(b)>> \o b

\* the entries the portal pushes: the channel does not verify them
PushedEntries ==
    { signRegistryEntry(1, toRegistryEntry(1), 1),
      ForgedEntry(2, 2, 300) }

\* the binary form of an entry: kind, public key, revision, length of the
\* data, data, signature
encodeEndian(n) == <<n % 256, (n \div 256) % 256>>
decodeEndian(b) == b[1] + 256 * b[2]

serializeRegistryEntry(e) ==
    <<7>> \o e.pk \o encodeEndian(e.revision) \o <<Len(e.data)>> \o e.data
        \o e.signature

deserializeRegistryEntry(b) ==
    LET n == Len(publicKey(1))
        dataLength == b[n + 4]
    IN  [pk |-> SubSeq(b, 2, n + 1),
         revision |-> decodeEndian(SubSeq(b, n + 2, n + 3)),
         data |-> SubSeq(b, n + 5, n + 4 + dataLength),
         signature |-> SubSeq(b, n + 5 + dataLength, Len(b))]

PushedFrames == { serializeRegistryEntry(e) : e \in PushedEntries }

\* subscribeToEntry without the key-type tag
taggedKey_NoTag(pubKey) == pubKey

\* the key with the tag byte in front of it (concatBytes of the tag and the key)
taggedKey(pubKey) == concatBytes(<<CID_HASH_TYPES_ED25519>>, pubKey)

\* the listener of the open event: what it sends
onOpen(pubKey) == <<packInt(2) \o packBytes(pubKey)>>

\* the listener of the message event handing the frame over as it came
onMessage_NoDecode(data) == data

\* the listener of the message event: what it calls cb with
onMessage(data) == deserializeRegistryEntry(data)

\* end() closing the socket whatever its state
endReturnsEarly_Never(readyState) == FALSE

\* [socket.CLOSING, socket.CLOSED].includes(socket.readyState)
endReturnsEarly(readyState) == readyState \in {"CLOSING", "CLOSED"}

\* the channel object has been returned to the caller
HasChannel == sub.pc = "done" /\ sub.result.kind = "return"

\* a caller invokes subscribeToEntry with a key: up to the first await
SubscribeToEntry(pubKey) ==
    /\ sub.pc = "idle"
    /\ LET checked == ensureBytes("public key", pubKey, PublicKeyLength) IN
       sub' = IF checked.kind = "throw"
              THEN [sub EXCEPT !.pc = "done", !.publicKey = pubKey,
                               !.result = checked]
              ELSE [sub EXCEPT !.pc = "awaitUrl", !.publicKey = pubKey,
                               !.key = taggedKey(checked.value)]
    /\ UNCHANGED <<socket, listeners, frames, delivered, endCalls, outsideChannel>>

\* the URL is built: the socket is created, the open listener is added and
\* the channel is returned
SubscribeToEntryConnect ==
    /\ sub.pc = "awaitUrl"
    /\ socket' = [NoSocket EXCEPT !.readyState = "CONNECTING"]
    /\ sub' = [sub EXCEPT !.pc = "done", !.result = Return("channel")]
    /\ UNCHANGED <<listeners, frames, delivered, endCalls, outsideChannel>>

\* listen(cb) handing the frames that came before to the new callback
onListen_Buffered(cb) ==
    [i \in 1..Len(frames) |-> [cb |-> cb, entry |-> onMessage(frames[i].data)]]

\* what listen(cb) calls cb with at once: addEventListener("message", ...) adds a
\* listener and calls nothing
onListen(cb) == <<>>

\* the caller invokes listen(cb) on the channel
Listen(cb) ==
    /\ HasChannel
    /\ Len(listeners) < MaxListeners
    /\ listeners' = Append(listeners, cb)
    /\ delivered' = delivered \o onListen(cb)
    /\ UNCHANGED <<sub, socket, frames, endCalls, outsideChannel>>

\* the caller invokes end() on the channel
End ==
    /\ HasChannel
    /\ endCalls < MaxEnds
    /\ endCalls' = endCalls + 1
    /\ socket' = IF endReturnsEarly(socket.readyState) THEN socket
                 ELSE [socket EXCEPT !.readyState = "CLOSING",
                                     !.closeRequests = @ + 1]
    /\ UNCHANGED <<sub, listeners, frames, delivered, outsideChannel>>

\* the connection opens: the open event runs its listener
SocketOpen ==
    /\ socket.readyState = "CONNECTING"
    /\ socket' = [socket EXCEPT !.readyState = "OPEN", !.opened = TRUE,
                                !.sent = @ \o onOpen(sub.key)]
    /\ UNCHANGED <<sub, listeners, frames, delivered, endCalls, outsideChannel>>

\* the connection cannot be established
SocketFail ==
    /\ socket.readyState = "CONNECTING"
    /\ socket' = [socket EXCEPT !.readyState = "CLOSED"]
    /\ UNCHANGED <<sub, listeners, frames, delivered, endCalls, outsideChannel>>

\* a binary frame arrives: the message event runs the listeners registered
\* so far, in the order of their registration
SocketMessage(data) ==
    /\ socket.opened
    /\ socket.readyState \in {"OPEN", "CLOSING"}
    /\ Len(frames) < MaxFrames
    /\ frames' = Append(frames, [data |-> data, listeners |-> Len(listeners)])
    /\ delivered' = delivered \o
            [i \in 1..Len(listeners) |-> [cb |-> listeners[i], entry |-> onMessage(data)]]
    /\ UNCHANGED <<sub, socket, listeners, endCalls, outsideChannel>>

\* the connection is closed, by the portal or at the end of the closing handshake
SocketClosed ==
    /\ socket.readyState \in {"OPEN", "CLOSING"}
    /\ socket' = [socket EXCEPT !.readyState = "CLOSED"]
    /\ UNCHANGED <<sub, listeners, frames, delivered, endCalls, outsideChannel>>

InitChannel == RegistryIdle /\ ChannelIdle /\ CodecIdle /\ UploadIdle /\ ResolutionIdle /\ ExecIdle /\ InstancesIdle

NextChannel ==
    \/ \E pubKey \in SubscribeKeys : SubscribeToEntry(pubKey)
    \/ SubscribeToEntryConnect
    \/ \E cb \in 1..MaxListeners : Listen(cb)
    \/ End
    \/ SocketOpen
    \/ SocketFail
    \/ \E data \in PushedFrames : SocketMessage(data)
    \/ SocketClosed

SpecChannel == InitChannel /\ [][NextChannel]_vars

\* ---------------------------------------------------------- text encoding
\* the longest byte string encoded
MaxLen == 3

\* bytes with all bits clear, one bit set, all bits set, and 184, whose text
\* begins with the letter u
Bytes == {0, 1, 184, 255}

ByteStrings == UNION { [1..n -> Bytes] : n \in 0..MaxLen }

\* the entries publishEntry sends
SentEntries ==
    { signRegistryEntry(k, toRegistryEntry(cid), revision) :
        k \in KeyPairs, cid \in Cids, revision \in InitialRevisions }

\* base64urlEncode(x)
EncodeBytes ==
    /\ codec.pc = "input"
    /\ codec' = [codec EXCEPT !.pc = "encoded", !.text = base64urlEncode(codec.x)]
    /\ UNCHANGED outsideCodec

\* base64urlDecode of the text
DecodeBytes ==
    /\ codec.pc = "encoded"
    /\ codec' = [codec EXCEPT !.pc = "decoded", !.back = base64urlDecode(codec.text)]
    /\ UNCHANGED outsideCodec

\* the body publishEntry makes of an entry
SendEntry(e) ==
    /\ codec.pc = "decoded"
    /\ codec' = [codec EXCEPT !.pc = "sent", !.sent = Some(e),
                              !.wire = Some(PostRequest(e).body[1])]
    /\ UNCHANGED outsideCodec

\* the entry getEntry makes of that body
ReadEntry ==
    /\ codec.pc = "sent"
    /\ codec' = [codec EXCEPT !.pc = "read", !.entry = Some(DecodeEntry(codec.wire[1]))]
    /\ UNCHANGED outsideCodec

InitCodec ==
    /\ RegistryIdle
    /\ ChannelIdle
    /\ codec \in { [NoCodec EXCEPT !.pc = "input", !.x = x] : x \in ByteStrings }
    /\ UploadIdle
    /\ ResolutionIdle /\ ExecIdle /\ InstancesIdle

NextCodec ==
    \/ EncodeBytes
    \/ DecodeBytes
    \/ \E e \in SentEntries : SendEntry(e)
    \/ ReadEntry

SpecCodec == InitCodec /\ [][NextCodec]_vars

\* ------------------------------------------------------ large file upload
chunkSize == 1024 * 1024

\* the sizes of the files uploaded: empty, less than a chunk, a chunk, more
FileSizes == {0, 1, chunkSize, chunkSize + 1, 2 * chunkSize}

\* CID.fromHash(hash of the file, file.size, CID_TYPES.RAW)
fromHash(size) == [hash |-> <<"blake3", size>>, size |-> size]

\* p-defer: resolve and reject settle a pending promise and do nothing to a
\* settled one
Settle(u, result) ==
    IF u.promise # "pending" THEN u
    ELSE [u EXCEPT !.promise = IF result.kind = "return" THEN "resolved" ELSE "rejected",
                   !.settled = @ + 1, !.result = result]

\* the onSuccess option: reject when upload.url is not set, else resolve({cid})
onSuccess(u) ==
    IF u.upload[1].url = Undefined
    THEN Settle(u, Throw([name |-> "Error", message |-> "'upload.url' was not set"]))
    ELSE Settle(u, Return(u.cid))

\* the onError option: reject with the body of the response, or with the error
onError(u, error) ==
    Settle(u, Throw([name |-> "Error", message |-> error]))

\* what tus-js-client does to the promise through the options of an Upload:
\* nothing as long as start() has not been called on it; once started, it
\* ends in onSuccess, with or without a url, or in onError
TusOutcomes == {"success", "success without url", "error"}

tusRun(u, outcome) ==
    IF ~u.upload[1].started THEN u
    ELSE IF outcome = "error" THEN onError(u, "upload failed")
    ELSE onSuccess([u EXCEPT !.upload =
            Some([@[1] EXCEPT !.url = IF outcome = "success"
                                     THEN Some("upload url") ELSE Undefined])])

\* a caller invokes uploadLargeFile(file): the deferred promise is made and
\* getTusOptions begins
UploadLargeFile(p, size) ==
    /\ uploads[p].pc = "idle"
    /\ uploads' = [uploads EXCEPT ![p] = [NoUpload EXCEPT !.pc = "hashing", !.size = size]]
    /\ UNCHANGED outsideUpload

\* file.slice(start, end): the bytes from start up to end or to the end of
\* the file, whichever comes first
slice(size, start, end) ==
    [from |-> IF start < size THEN start ELSE size,
     to |-> IF end < size THEN end ELSE size]

\* the event handed to onHashProgress after a chunk
hashProgress(u) == [bytes |-> u.position + chunkSize, total |-> u.size]

\* getTusOptions: one turn of while (position <= file.size), the chunk read
\* and fed to the hasher, or the read failing, which rejects the call
HashChunk(p, readOk) ==
    /\ uploads[p].pc = "hashing"
    /\ uploads[p].position <= uploads[p].size
    /\ uploads' = [uploads EXCEPT ![p] =
            IF readOk
            THEN [@ EXCEPT !.position = @ + chunkSize, !.chunks = @ + 1,
                           !.fed = Append(@, slice(uploads[p].size, uploads[p].position,
                                                   uploads[p].position + chunkSize)),
                           !.progress = Append(@, hashProgress(uploads[p]))]
            ELSE [@ EXCEPT !.pc = "done", !.promise = "rejected", !.settled = @ + 1,
                           !.result = Throw([name |-> "Error", message |-> "read failed"])]]
    /\ UNCHANGED outsideUpload

\* the loop is over: the cid is computed, new Upload(file, options) is made
\* and p.promise is returned
NewUpload(p) ==
    /\ uploads[p].pc = "hashing"
    /\ uploads[p].position > uploads[p].size
    /\ uploads' = [uploads EXCEPT ![p] =
            [@ EXCEPT !.pc = "returned", !.cid = Some(fromHash(uploads[p].size)),
                      !.upload = Some([started |-> FALSE, url |-> Undefined])]]
    /\ UNCHANGED outsideUpload

\* tus-js-client gets to run
TusRun(p, outcome) ==
    /\ uploads[p].pc = "returned"
    /\ uploads' = [uploads EXCEPT ![p] = tusRun(@, outcome)]
    /\ UNCHANGED outsideUpload

InitUpload == RegistryIdle /\ ChannelIdle /\ CodecIdle /\ UploadIdle /\ ResolutionIdle /\ ExecIdle /\ InstancesIdle

NextUpload ==
    \/ \E p \in Procs, size \in FileSizes : UploadLargeFile(p, size)
    \/ \E p \in Procs, readOk \in BOOLEAN : HashChunk(p, readOk)
    \/ \E p \in Procs : NewUpload(p)
    \/ \E p \in Procs, outcome \in TusOutcomes : TusRun(p, outcome)

\* every step that can be taken is taken in the end: the event loop runs
\* the continuations and the callbacks that are due
SpecUpload == InitUpload /\ [][NextUpload]_vars /\ WF_vars(NextUpload)

\* ---------------------------------------- portal URL of the older client
\* resolvePortalUrl(): a new promise, pending while its request is under way
resolvePortalUrl(w) ==
    [w EXCEPT !.promises = Append(@,
        [state |-> "pending", value |-> Undefined, waiters |-> <<>>,
         afterSuccess |-> \E i \in DOMAIN w.promises : w.promises[i].state = "fulfilled"])]

\* S5Client.resolvedPortalUrl = this.resolvePortalUrl()
assignResolved(w) ==
    LET w1 == resolvePortalUrl(w) IN
    [w1 EXCEPT !.resolvedPortalUrl = Some(Len(w1.promises))]

\* the same, done by the call of client c: issued is the request it made
assignResolvedBy(w, c) ==
    LET w1 == assignResolved(w) IN
    [w1 EXCEPT !.calls[c].issued = w1.resolvedPortalUrl[1]]

\* client c awaits promise id and will go on at pc: at once in the microtask
\* queue when the promise is settled, else among the promise's waiters
await(w, c, id, pc) ==
    LET w1 == [w EXCEPT !.calls[c].pc = pc, !.calls[c].awaiting = id] IN
    IF w.promises[id].state = "pending"
    THEN [w1 EXCEPT !.promises[id].waiters = Append(@, c)]
    ELSE [w1 EXCEPT !.microtasks = Append(@, c)]

\* client c's call ends
settleCall(w, c, result) ==
    [w EXCEPT !.calls[c].pc = "done", !.calls[c].result = result]

\* initPortalUrl up to its first await
initPortalUrl(w, c) ==
    IF w.calls[c].customPortalUrl # Undefined
    THEN (IF w.calls[c].op = "initPortalUrl"
          THEN settleCall(w, c, Return(Undefined))
          ELSE settleCall(w, c, Return(w.calls[c].customPortalUrl)))
    ELSE IF w.resolvedPortalUrl = Undefined
    THEN LET w1 == assignResolvedBy(w, c) IN
         await(w1, c, w1.resolvedPortalUrl[1], "awaitResolved")
    ELSE await(w, c, w.resolvedPortalUrl[1], "awaitTry")

\* client c goes on after the promise it awaited was settled
resume(w, c) ==
    LET call == w.calls[c]
        awaited == w.promises[call.awaiting]
    IN  IF call.pc = "awaitTry"
        THEN (IF awaited.state = "fulfilled"
              THEN await(w, c, w.resolvedPortalUrl[1], "awaitResolved")
              ELSE LET w1 == assignResolvedBy(w, c) IN
                   await(w1, c, w1.resolvedPortalUrl[1], "awaitResolved"))
        ELSE IF call.pc = "awaitResolved"
        THEN (IF awaited.state = "rejected"
              THEN settleCall(w, c, Throw(awaited.value[1]))
              ELSE IF call.op = "initPortalUrl"
              THEN settleCall(w, c, Return(Undefined))
              ELSE [w EXCEPT !.calls[c].pc = "afterInit",
                             !.microtasks = Append(@, c)])
        ELSE IF call.pc = "afterInit"
        THEN await(w, c, w.resolvedPortalUrl[1], "awaitReturn")
        ELSE (IF awaited.state = "rejected"
              THEN settleCall(w, c, Throw(awaited.value[1]))
              ELSE settleCall(w, c, Return(awaited.value)))

\* the URL the portal names in its s5-portal-api header
PortalApiUrl == "https://api.portal"

\* the static resolvedPortalUrl is a promise that was rejected
resolutionFailed(w) ==
    /\ w.resolvedPortalUrl # Undefined
    /\ w.promises[w.resolvedPortalUrl[1]].state = "rejected"

\* a caller invokes initPortalUrl() or portalUrl() on a client, made with or
\* without a portal URL of its own; callers get to run when no continuation
\* is waiting in the microtask queue, and one caller may make several calls
\* in its turn, before the continuations of the first of them run
CallPortalUrl(c, op, customPortalUrl) ==
    /\ resolution.calls[c].pc = "idle"
    /\ resolution.microtasks = <<>> \/ resolution.sync
    /\ LET w == initPortalUrl(
                [resolution EXCEPT !.calls[c].op = op,
                                   !.calls[c].customPortalUrl = customPortalUrl,
                                   !.calls[c].afterFailure = resolutionFailed(resolution)],
                c)
       IN  resolution' = [w EXCEPT !.sync = (w.microtasks # <<>>)]
    /\ UNCHANGED outsideResolution

\* the continuation at the head of the microtask queue runs
RunMicrotask ==
    /\ resolution.microtasks # <<>>
    /\ resolution' = resume([resolution EXCEPT !.microtasks = Tail(@), !.sync = FALSE],
                            Head(resolution.microtasks))
    /\ UNCHANGED outsideResolution

\* the request of a resolvePortalUrl() ends: its promise is fulfilled with
\* the URL or rejected, and its waiters are queued in the order they came
ResolveRequestDone(id, ok) ==
    /\ resolution.microtasks = <<>>
    /\ id \in DOMAIN resolution.promises
    /\ resolution.promises[id].state = "pending"
    /\ resolution' =
        [resolution EXCEPT
            !.promises[id] =
                [state |-> IF ok THEN "fulfilled" ELSE "rejected",
                 value |-> IF ok THEN Some(PortalApiUrl)
                           ELSE Some([name |-> "ExecuteRequestError",
                                      message |-> "Request failed"]),
                 waiters |-> <<>>, afterSuccess |-> @.afterSuccess],
            !.microtasks = resolution.promises[id].waiters]
    /\ UNCHANGED outsideResolution

InitResolution ==
    RegistryIdle /\ ChannelIdle /\ CodecIdle /\ UploadIdle /\ ResolutionIdle /\ ExecIdle /\ InstancesIdle

NextResolution ==
    \/ \E c \in Clients, op \in {"initPortalUrl", "portalUrl"},
          customPortalUrl \in {Undefined, Some("https://custom.portal")} :
            CallPortalUrl(c, op, customPortalUrl)
    \/ RunMicrotask
    \/ \E id \in 1..(2 * Cardinality(Clients)), ok \in BOOLEAN : ResolveRequestDone(id, ok)

SpecResolution == InitResolution /\ [][NextResolution]_vars

\* ------------------------------------ executeRequest of the older client
\* the number of requests a call may hand to axios before the model stops
\* following it
MaxRequests == 3

\* ExecuteRequestError.From: responseStatus is the status of the response,
\* null when there was no response
From(err) ==
    [name |-> "ExecuteRequestError",
     message |-> IF err.response = Undefined
                 THEN <<"Error response did not contain expected field 'response'.">>
                 ELSE <<"Request failed with status code", err.response[1].status>>,
     originalError |-> err,
     responseStatus |-> ResponseStatus(err)]

\* axios with the response interceptor: a 2xx response is returned as it is,
\* anything else is rejected with ExecuteRequestError.From of axios' error
interceptedAxios(outcome) ==
    IF axios(outcome).ok THEN Resolved(Some(outcome))
    ELSE Rejected(From(axios(outcome).error[1]))

\* the configurations executeRequest is called with: with or without a url
\* of their own, with or without loginFn
RequestConfigs ==
    { [url |-> url, loginFn |-> loginFn] :
        url \in {Undefined, Some("https://custom.portal")}, loginFn \in BOOLEAN }

\* what the portal answers a request with
ExecOutcomes ==
    { HttpResponse(200, Some("body")), HttpResponse(401, Undefined),
      HttpResponse(404, Undefined), NetworkFailure }

\* the recursive call keeping loginFn
retryConfig_KeepLoginFn(config) == config

\* { ...config, loginFn: undefined }
retryConfig(config) == [config EXCEPT !.loginFn = FALSE]

\* config.loginFn && e.responseStatus === 401
shouldLogin(config, e) == config.loginFn /\ e.responseStatus = Some(401)

\* executeRequest up to await buildRequestUrl(...)
executeRequest(x, config) == [x EXCEPT !.pc = "buildUrl", !.config = config]

\* a caller invokes executeRequest(config)
ExecuteRequest(p, config) ==
    /\ exec[p].pc = "idle"
    /\ exec' = [exec EXCEPT ![p] = executeRequest(@, config)]
    /\ UNCHANGED outsideExec

\* buildRequestUrl returns and the request is handed to axios; without a url
\* in the configuration it asks portalUrl(), which may throw
BuildRequestUrl(p, ok) ==
    /\ exec[p].pc = "buildUrl"
    /\ Len(exec[p].sent) < MaxRequests
    /\ ok \/ exec[p].config.url = Undefined
    /\ exec' = [exec EXCEPT ![p] =
            IF ok
            THEN [@ EXCEPT !.pc = "awaitAxios", !.sent = Append(@, exec[p].config)]
            ELSE [@ EXCEPT !.pc = "done",
                           !.result = Throw([name |-> "Error",
                                             message |-> "Could not get portal URL"])]]
    /\ UNCHANGED outsideExec

\* axios settles: the response is returned, or the catch block runs
AxiosDone(p, outcome) ==
    /\ exec[p].pc = "awaitAxios"
    /\ LET r == interceptedAxios(outcome)
           x == [exec[p] EXCEPT !.answers = Append(@, outcome)]
       IN  exec' = [exec EXCEPT ![p] =
                IF r.ok THEN [x EXCEPT !.pc = "done", !.result = Return(r.data)]
                ELSE IF shouldLogin(x.config, r.error[1])
                THEN [x EXCEPT !.pc = "awaitLogin", !.logins = @ + 1]
                ELSE [x EXCEPT !.pc = "done", !.result = Throw(r.error[1])]]
    /\ UNCHANGED outsideExec

\* loginFn settles: executeRequest calls itself, or throws what loginFn threw
LoginFnDone(p, ok) ==
    /\ exec[p].pc = "awaitLogin"
    /\ exec' = [exec EXCEPT ![p] =
            IF ok
            THEN executeRequest([@ EXCEPT !.loginOk = Some(TRUE)],
                                retryConfig(exec[p].config))
            ELSE [@ EXCEPT !.pc = "done", !.loginOk = Some(FALSE),
                           !.result = Throw([name |-> "Error",
                                             message |-> "login failed"])]]
    /\ UNCHANGED outsideExec

InitExec ==
    RegistryIdle /\ ChannelIdle /\ CodecIdle /\ UploadIdle /\ ResolutionIdle /\ ExecIdle /\ InstancesIdle

NextExec ==
    \/ \E p \in Procs, config \in RequestConfigs : ExecuteRequest(p, config)
    \/ \E p \in Procs, ok \in BOOLEAN : BuildRequestUrl(p, ok)
    \/ \E p \in Procs, outcome \in ExecOutcomes : AxiosDone(p, outcome)
    \/ \E p \in Procs, ok \in BOOLEAN : LoginFnDone(p, ok)

\* the portal answers every request and loginFn settles: every step that can
\* be taken is taken in the end
SpecExec == InitExec /\ [][NextExec]_vars /\ WF_vars(NextExec)

\* ------------------------------------------------- making an S5Client
\* utils/url: a URL with its protocol in front
ensureUrl(url) == IF url[1] = "https://" THEN url ELSE <<"https://">> \o url

defaultPortalUrl == <<"https://", "default.portal">>

\* the portal URLs handed to the constructor: the empty string, a URL, a
\* host name
PortalUrls == {EmptyString, <<"https://", "my.portal">>, <<"my.portal">>}

\* the options handed to the constructor and to the methods
OptionSets ==
    { [NoOptions EXCEPT !.apiKey = k, !.customCookie = c] :
        k \in {Undefined, Some("key of the client"), Some("key of the call")},
        c \in {Undefined, Some("cookie")} }

\* the constructor of S5Client: a portal URL that is falsy is a validation
\* error
S5Client(portalUrl, customOptions) ==
    IF portalUrl = EmptyString
    THEN [NoInstance EXCEPT !.pc = "thrown", !.class = "S5Client", !.arg = portalUrl,
                            !.result = Throw(throwValidationError("portalUrl"))]
    ELSE [NoInstance EXCEPT !.pc = "made", !.class = "S5Client", !.arg = portalUrl,
                            !.portalUrl = Some(ensureUrl(portalUrl)),
                            !.clientOptions = customOptions,
                            !.result = Return(Undefined)]

\* the constructor of the older S5Client: the empty string stands for the
\* default portal
LegacyS5Client(initialPortalUrl, customOptions) ==
    [NoInstance EXCEPT
        !.pc = "made", !.class = "legacy S5Client", !.arg = initialPortalUrl,
        !.portalUrl = IF initialPortalUrl = EmptyString THEN Some(defaultPortalUrl)
                      ELSE Some(initialPortalUrl),
        !.customPortalUrl = IF initialPortalUrl = EmptyString THEN Undefined
                            ELSE Some(ensureUrl(initialPortalUrl)),
        !.clientOptions = customOptions,
        !.result = Return(Undefined)]

\* a caller evaluates new S5Client(portalUrl, customOptions)
NewS5Client(p, portalUrl, customOptions) ==
    /\ instances[p].pc = "none"
    /\ instances' = [instances EXCEPT ![p] = S5Client(portalUrl, customOptions)]
    /\ UNCHANGED outsideInstances

\* a caller evaluates new S5Client(initialPortalUrl, customOptions) of the
\* older client
NewLegacyS5Client(p, initialPortalUrl, customOptions) ==
    /\ instances[p].pc = "none"
    /\ instances' = [instances EXCEPT ![p] = LegacyS5Client(initialPortalUrl, customOptions)]
    /\ UNCHANGED outsideInstances

\* ------------------------------------------------------ option handling
\* { ...a, ...b }: what b gives replaces what a gives
Spread(a, b) == [k \in DOMAIN a |-> IF b[k] # Undefined THEN b[k] ELSE a[k]]

\* options.reduce((acc, val) => ({ ...acc, ...val }), options)
RECURSIVE reduceOptions(_)
reduceOptions(options) ==
    IF options = <<>> THEN NoOptions
    ELSE Spread(reduceOptions(SubSeq(options, 1, Len(options) - 1)), options[Len(options)])

\* the options a request configuration was built from, as far as they show
\* in it
NoConfig ==
    [baseURL |-> Undefined, Cookie |-> Undefined, UserAgent |-> Undefined,
     Authorization |-> Undefined, auth_token |-> Undefined,
     withCredentials |-> FALSE,
     onUploadProgress |-> Undefined, onDownloadProgress |-> Undefined]

\* finalOptions of optionsToConfig
finalOptions(client, def, options) ==
    Spread(Spread(def, client.clientOptions), reduceOptions(options))

\* optionsToConfig(client, def, ...options)
optionsToConfig(client, def, options) ==
    LET final == finalOptions(client, def, options) IN
    [NoConfig EXCEPT
        !.baseURL = client.portalUrl,
        !.onDownloadProgress = final.onDownloadProgress,
        !.onUploadProgress = final.onUploadProgress,
        !.Cookie = final.customCookie,
        !.UserAgent = final.customUserAgent,
        !.Authorization = IF final.apiKey = Undefined THEN Undefined
                          ELSE Some(<<"Bearer", final.apiKey[1]>>),
        !.withCredentials = final.apiKey # Undefined,
        !.auth_token = final.apiKey]

\* the defaults of getEntry name an endpoint and none of the options
DEFAULT_GET_ENTRY_OPTIONS == NoOptions

\* getEntry: optionsToConfig(this, DEFAULT_GET_ENTRY_OPTIONS, customOptions)
getEntryConfig(client, customOptions) ==
    [client EXCEPT
        !.op = "getEntry", !.customOptions = customOptions,
        !.def = DEFAULT_GET_ENTRY_OPTIONS,
        !.finalOptions = finalOptions(client, DEFAULT_GET_ENTRY_OPTIONS, <<customOptions>>),
        !.config = Some(optionsToConfig(client, DEFAULT_GET_ENTRY_OPTIONS,
                                        <<customOptions>>))]

\* accountPins: opts = { ...this.clientOptions, ...customOptions, ... } is
\* handed to optionsToConfig as its def parameter
accountPins(client, customOptions) ==
    LET opts == Spread(client.clientOptions, customOptions) IN
    [client EXCEPT
        !.op = "accountPins", !.customOptions = customOptions,
        !.finalOptions = finalOptions(client, opts, <<>>),
        !.config = Some(optionsToConfig(client, opts, <<>>))]

\* getCidUrl: opt = { ...this.clientOptions, customOptions } has the options
\* of the client and one more property, named customOptions
getCidUrl(client, customOptions) ==
    LET opt == client.clientOptions IN
    [client EXCEPT
        !.op = "getCidUrl", !.customOptions = customOptions,
        !.finalOptions = opt,
        !.config = Some([NoConfig EXCEPT !.baseURL = client.portalUrl,
                                         !.auth_token = opt.apiKey])]

\* the client p made can be called
Callable(p) ==
    /\ instances[p].pc = "made"
    /\ instances[p].class = "S5Client"
    /\ instances[p].op = "none"

\* a caller invokes getEntry(publicKey, customOptions): the configuration
\* of its request
GetEntryConfig(p, customOptions) ==
    /\ Callable(p)
    /\ instances' = [instances EXCEPT ![p] = getEntryConfig(@, customOptions)]
    /\ UNCHANGED outsideInstances

\* a caller invokes accountPins(customOptions)
AccountPins(p, customOptions) ==
    /\ Callable(p)
    /\ instances' = [instances EXCEPT ![p] = accountPins(@, customOptions)]
    /\ UNCHANGED outsideInstances

\* a caller invokes getCidUrl(cid, customOptions)
GetCidUrl(p, customOptions) ==
    /\ Callable(p)
    /\ instances' = [instances EXCEPT ![p] = getCidUrl(@, customOptions)]
    /\ UNCHANGED outsideInstances

InitInstances ==
    /\ RegistryIdle /\ ChannelIdle /\ CodecIdle /\ UploadIdle
    /\ ResolutionIdle /\ ExecIdle /\ InstancesIdle

NextInstances ==
    \/ \E p \in Procs, portalUrl \in PortalUrls, customOptions \in OptionSets :
            NewS5Client(p, portalUrl, customOptions)
    \/ \E p \in Procs, portalUrl \in PortalUrls, customOptions \in OptionSets :
            NewLegacyS5Client(p, portalUrl, customOptions)
    \/ \E p \in Procs, customOptions \in OptionSets : GetEntryConfig(p, customOptions)
    \/ \E p \in Procs, customOptions \in OptionSets : AccountPins(p, customOptions)
    \/ \E p \in Procs, customOptions \in OptionSets : GetCidUrl(p, customOptions)

SpecInstances == InitInstances /\ [][NextInstances]_vars

\* ---------------------------------------------------------------- actions
Busy(p) == calls[p].pc \in {"awaitGet", "awaitPost"}

Begin(p) ==
    /\ ~Busy(p)
    /\ callsLeft > 0
    /\ callsLeft' = callsLeft - 1
    /\ overlapped' = (overlapped \/ \E q \in Procs \ {p} : Busy(q))

\* a caller invokes createEntry(sk, cid, revision)
CreateEntry(p, sk, cid, revision) ==
    /\ Begin(p)
    /\ calls' = [calls EXCEPT ![p] =
            [IdleCall EXCEPT !.pc = "awaitGet", !.op = "createEntry", !.kp = sk,
                             !.cid = cid, !.revision = revision,
                             !.reqs = <<GetRequest(publicKey(sk))>>]]
    /\ UNCHANGED <<registry, accepted, outsideRegistry>>

\* a caller invokes getEntry(publicKey)
GetEntry(p, pk) ==
    /\ Begin(p)
    /\ calls' = [calls EXCEPT ![p] =
            [IdleCall EXCEPT !.pc = "awaitGet", !.op = "getEntry",
                             !.arg = Some(pk), !.reqs = <<GetRequest(pk)>>]]
    /\ UNCHANGED <<registry, accepted, outsideRegistry>>

\* a caller invokes publishEntry(signedEntry)
PublishEntry(p, signedEntry) ==
    /\ Begin(p)
    /\ calls' = [calls EXCEPT ![p] =
            publishEntry([IdleCall EXCEPT !.op = "publishEntry",
                                          !.arg = Some(signedEntry)], signedEntry)]
    /\ UNCHANGED <<registry, accepted, outsideRegistry>>

\* the read request of p is answered and the call runs on to its next await
GetResponse(p) ==
    /\ calls[p].pc = "awaitGet"
    /\ \E outcome \in GetOutcomes(calls[p].reqs[1].pk) :
        LET c == [calls[p] EXCEPT !.resp = Some(outcome)]
            got == getEntry(outcome)
        IN  calls' = [calls EXCEPT ![p] =
                IF c.op = "getEntry" THEN Done(c, got) ELSE createEntryAfterGet(c, got)]
    /\ UNCHANGED <<registry, accepted, callsLeft, overlapped, outsideRegistry>>

\* the write request of p is answered and the call runs to its end; the portal
\* stores the entry it acknowledges, and may have stored one whose
\* acknowledgement was lost on the way back
PostResponse(p) ==
    /\ calls[p].pc = "awaitPost"
    /\ \E outcome \in PostOutcomes, stored \in BOOLEAN :
        LET c == [calls[p] EXCEPT !.postResp = Some(outcome)]
            body == c.reqs[Len(c.reqs)].body[1]
            pub == publishEntryResult(outcome)
        IN  /\ outcome.kind = "response" => (stored <=> outcome.status = 200)
            /\ calls' = [calls EXCEPT ![p] =
                    IF c.op = "publishEntry" THEN Done(c, pub)
                    ELSE createEntryAfterPublish(c, pub)]
            /\ IF stored
               THEN /\ registry' = [k \in KeyPairs |->
                            IF k \in KeysOfText(body.pk) THEN Some(body) ELSE registry[k]]
                    /\ accepted' = Append(accepted, [body |-> body, by |-> c.op, proc |-> p])
               ELSE UNCHANGED <<registry, accepted>>
    /\ UNCHANGED <<callsLeft, overlapped, outsideRegistry>>

Init ==
    /\ calls = [p \in Procs |-> IdleCall]
    /\ registry \in InitialRegistries
    /\ accepted = <<>>
    /\ callsLeft = MaxCalls
    /\ overlapped = FALSE
    /\ ChannelIdle
    /\ CodecIdle
    /\ UploadIdle
    /\ ResolutionIdle /\ ExecIdle /\ InstancesIdle

Next ==
    \/ \E p \in Procs, sk \in KeyPairs, cid \in Cids, revision \in InitialRevisions :
            CreateEntry(p, sk, cid, revision)
    \/ \E p \in Procs, k \in KeyPairs : GetEntry(p, publicKey(k))
    \/ \E p \in Procs, signedEntry \in PublishArgs : PublishEntry(p, signedEntry)
    \/ \E p \in Procs : GetResponse(p)
    \/ \E p \in Procs : PostResponse(p)

Spec == Init /\ [][Next]_vars

\* the callers only write, and all to one public key: createEntry calls with
\* key pair 1 and nothing else
InitWriters ==
    /\ calls = [p \in Procs |-> IdleCall]
    /\ registry \in InitialRegistries
    /\ accepted = <<>>
    /\ callsLeft = MaxWriterCalls
    /\ overlapped = FALSE
    /\ ChannelIdle
    /\ CodecIdle
    /\ UploadIdle
    /\ ResolutionIdle /\ ExecIdle /\ InstancesIdle

NextWriters ==
    \/ \E p \in Procs, cid \in Cids, revision \in InitialRevisions :
            CreateEntry(p, 1, cid, revision)
    \/ \E p \in Procs : GetResponse(p)
    \/ \E p \in Procs : PostResponse(p)

SpecWriters == InitWriters /\ [][NextWriters]_vars

\* ================================================================ claims
IsOk(outcome) == outcome.kind = "response" /\ outcome.status \in 200..299

\* the read request of call c has been answered
Answered(c) == c.resp # Undefined

\* the portal answered the read of c with an entry that verifies
GotEntry(c) ==
    /\ Answered(c)
    /\ IsOk(c.resp[1])
    /\ verifyRegistryEntry(DecodeEntry(c.resp[1].data[1]))

\* the portal answered the read of c with 404
GotNotFound(c) ==
    /\ Answered(c)
    /\ c.resp[1].kind = "response"
    /\ c.resp[1].status = 404

\* the entry the portal answered the read of c with
Fetched(c) == DecodeEntry(c.resp[1].data[1])

IsGet(r) == r.method = "GET"
IsPost(r) == r.method = "POST"
Gets(c) == SelectSeq(c.reqs, IsGet)
Posts(c) == SelectSeq(c.reqs, IsPost)

\* the entry carried by a write request
Posted(r) == DecodeEntry(r.body[1])

\* the write request of c has been acknowledged
Acknowledged(c) == c.postResp # Undefined /\ IsOk(c.postResp[1])

Failed(c, name) ==
    /\ c.pc = "done"
    /\ c.result.kind = "throw"
    /\ c.result.error[1].name = name

\* C1: createEntry on an existing entry of the caller's key with revision N
\* and other data issues exactly one write request, for the entry signed over
\* (target data, N + 1), and returns that entry once the write is acknowledged;
\* the revision argument plays no part.
C1_Case(c) ==
    /\ c.op = "createEntry"
    /\ GotEntry(c)
    /\ Fetched(c).pk = publicKey(c.kp)
    /\ Fetched(c).data # toRegistryEntry(c.cid)

C1_MonotonicRevision ==
    \A p \in Procs :
        LET c == calls[p]
            new == signRegistryEntry(c.kp, toRegistryEntry(c.cid), Fetched(c).revision + 1)
        IN  C1_Case(c) =>
                /\ Len(Posts(c)) = 1
                /\ Posted(Posts(c)[1]) = new
                /\ (c.pc = "done" /\ Acknowledged(c) => c.result = Return(Some(new)))

C1_Witness ==
    \E p \in Procs :
        /\ C1_Case(calls[p])
        /\ calls[p].pc = "done"
        /\ calls[p].result.kind = "return"
        /\ calls[p].revision # Fetched(calls[p]).revision + 1

\* C2 as claimed: createEntry on an existing entry whose data equals the
\* target data returns the fetched entry and issues no write request.
C2_Case(c) ==
    /\ c.op = "createEntry"
    /\ GotEntry(c)
    /\ Fetched(c).data = toRegistryEntry(c.cid)

C2_AsClaimed ==
    \A p \in Procs :
        LET c == calls[p] IN
        C2_Case(c) =>
            /\ c.pc = "done"
            /\ c.result = Return(Some(Fetched(c)))
            /\ Posts(c) = <<>>

\* C2 amended: createEntry on an existing entry of the caller's key whose data
\* equals the target data returns the fetched entry, all four fields as the
\* portal sent them, and issues no write request.
C2_NoOp ==
    \A p \in Procs :
        LET c == calls[p] IN
        C2_Case(c) /\ Fetched(c).pk = publicKey(c.kp) =>
            /\ c.pc = "done"
            /\ c.result = Return(Some(Fetched(c)))
            /\ Posts(c) = <<>>

C2_Witness ==
    \E p \in Procs :
        /\ C2_Case(calls[p])
        /\ Fetched(calls[p]).pk = publicKey(calls[p].kp)
        /\ calls[p].result.kind = "return"

\* C3: createEntry on a fetched entry of another public key fails with a
\* validation error and issues no write request, whatever the entry's data
\* and revision.
C3_Case(c) ==
    /\ c.op = "createEntry"
    /\ GotEntry(c)
    /\ Fetched(c).pk # publicKey(c.kp)

C3_KeyMismatch ==
    \A p \in Procs :
        C3_Case(calls[p]) =>
            /\ Failed(calls[p], "ValidationError")
            /\ calls[p].result.error[1].message = "entry.pk"
            /\ Posts(calls[p]) = <<>>

C3_Witness == \E p \in Procs : C3_Case(calls[p]) /\ calls[p].pc = "done"

\* C4 as claimed: getEntry answered with status 404 returns undefined and
\* raises no error.
C4_NotFoundIsAbsent ==
    \A p \in Procs :
        LET c == calls[p] IN
        c.op = "getEntry" /\ c.pc = "done" /\ GotNotFound(c) =>
            c.result = Return(Undefined)

\* C5 as claimed: createEntry for a key the portal holds no entry of issues
\* exactly one write request, for the entry signed over (target data, the
\* revision argument), and returns that entry once the write is acknowledged.
C5_Bootstrap ==
    \A p \in Procs :
        LET c == calls[p]
            new == signRegistryEntry(c.kp, toRegistryEntry(c.cid), c.revision)
        IN  c.op = "createEntry" /\ GotNotFound(c) =>
                /\ Len(Posts(c)) = 1
                /\ Posted(Posts(c)[1]) = new
                /\ (c.pc = "done" /\ Acknowledged(c) => c.result = Return(Some(new)))

\* C6: publishEntry of an entry whose signature does not verify fails with a
\* validation error and issues no request at all.
C6_Case(c) ==
    /\ c.op = "publishEntry"
    /\ ~verifyRegistryEntry(c.arg[1])

C6_PublishPrecondition ==
    \A p \in Procs :
        C6_Case(calls[p]) =>
            /\ Failed(calls[p], "ValidationError")
            /\ calls[p].reqs = <<>>

C6_Witness == \E p \in Procs : C6_Case(calls[p]) /\ calls[p].pc = "done"

\* C7: a read answered 200 with an entry that does not verify ends in a
\* validation error, in getEntry and in the createEntry that called it, and
\* every entry getEntry returns verifies.
C7_Case(c) ==
    /\ Answered(c)
    /\ IsOk(c.resp[1])
    /\ ~verifyRegistryEntry(Fetched(c))

C7_NeverSurfaceInvalid ==
    \A p \in Procs :
        LET c == calls[p] IN
        /\ C7_Case(c) =>
                /\ Failed(c, "ValidationError")
                /\ c.result.error[1].message = "signedEntry"
                /\ Posts(c) = <<>>
        /\ (c.op = "getEntry" /\ c.pc = "done" /\ c.result.kind = "return"
                /\ c.result.value # Undefined)
            => verifyRegistryEntry(c.result.value[1])

C7_Witness ==
    \E p \in Procs : C7_Case(calls[p]) /\ calls[p].op = "getEntry" /\ calls[p].pc = "done"

\* the accepted publishes i < j are for the same public key
SameKey(i, j) == i < j /\ accepted[i].body.pk = accepted[j].body.pk

\* C8 as claimed: under every interleaving of createEntry calls for one
\* public key, the revisions of successively accepted publishes never decrease.
C8_AsClaimed ==
    \A i, j \in DOMAIN accepted :
        SameKey(i, j) => accepted[i].body.revision <= accepted[j].body.revision

\* C8 amended: as long as no createEntry call has started while another one
\* was in progress, each accepted publish for a public key carries a higher
\* revision than the accepted publishes before it.
C8_SequentialRevisionsIncrease ==
    ~overlapped =>
        \A i, j \in DOMAIN accepted :
            SameKey(i, j) => accepted[i].body.revision < accepted[j].body.revision

C8_Witness ==
    /\ ~overlapped
    /\ \E i, j \in DOMAIN accepted : SameKey(i, j)

\* C9: two createEntry calls for one key that were both answered the same
\* entry of that key, revision N, and both ask for other data than it holds,
\* each issue one write request with revision N + 1, those requests carrying
\* different entries when the target data differ; neither call is stopped by
\* the client: a call that fails fails with the transport's error for its
\* own write.
C9_Case(c, d) ==
    /\ C1_Case(c)
    /\ C1_Case(d)
    /\ c.kp = d.kp
    /\ Fetched(c) = Fetched(d)

C9_SameRevisionTwice ==
    \A p, q \in Procs :
        LET c == calls[p]
            d == calls[q]
        IN  p # q /\ C9_Case(c, d) =>
                /\ Len(Posts(c)) = 1
                /\ Len(Posts(d)) = 1
                /\ Posted(Posts(c)[1]).revision = Fetched(c).revision + 1
                /\ Posted(Posts(d)[1]).revision = Fetched(c).revision + 1
                /\ c.cid # d.cid => Posted(Posts(c)[1]) # Posted(Posts(d)[1])
                /\ c.pc = "done" /\ c.result.kind = "throw" =>
                        ~Acknowledged(c) /\ c.result.error[1].name = "S5Error"

\* both calls have read before either write was answered, and the portal
\* has accepted both writes: two entries, one revision
C9_Witness ==
    /\ \E p, q \in Procs :
        /\ p # q
        /\ C9_Case(calls[p], calls[q])
        /\ calls[p].cid # calls[q].cid
        /\ Acknowledged(calls[p])
        /\ Acknowledged(calls[q])
    /\ \E i, j \in DOMAIN accepted :
        /\ SameKey(i, j)
        /\ accepted[i].body.revision = accepted[j].body.revision
        /\ accepted[i].body.data # accepted[j].body.data

\* C10: a createEntry call issues its read request first, then at most one
\* write request, and nothing else; a call whose read or write failed has
\* ended with no further request.
C10_OneReadOneWrite ==
    \A p \in Procs :
        LET c == calls[p] IN
        c.op = "createEntry" =>
            /\ Len(Gets(c)) = 1
            /\ Len(Posts(c)) <= 1
            /\ IsGet(c.reqs[1])
            /\ Len(c.reqs) = 2 => IsPost(c.reqs[2])
            /\ Answered(c) /\ ~IsOk(c.resp[1]) => c.pc = "done" /\ Len(c.reqs) = 1
            /\ c.postResp # Undefined /\ ~IsOk(c.postResp[1]) =>
                    c.pc = "done" /\ Len(c.reqs) = 2

C10_Witness ==
    \E p \in Procs :
        /\ calls[p].op = "createEntry"
        /\ calls[p].postResp # Undefined
        /\ ~IsOk(calls[p].postResp[1])
        /\ calls[p].result.kind = "throw"

\* the frames that arrived when a callback was registered
Heard(f) == f.listeners >= 1
FramesHeard == SelectSeq(frames, Heard)

\* C11: with one callback registered through listen(), the callback has been
\* invoked once for each frame that arrived since the registration, in the
\* order of arrival, each time with the decoding of that frame, which is the
\* entry the portal pushed.
C11_DeliveryOrder ==
    Len(listeners) = 1 =>
        /\ Len(delivered) = Len(FramesHeard)
        /\ \A i \in DOMAIN delivered :
            /\ delivered[i].cb = listeners[1]
            /\ delivered[i].entry = deserializeRegistryEntry(FramesHeard[i].data)
            /\ delivered[i].entry \in PushedEntries
            /\ serializeRegistryEntry(delivered[i].entry) = FramesHeard[i].data

\* a frame was missed before the registration, then two different ones came
C11_Witness ==
    /\ Len(listeners) = 1
    /\ Len(frames) > Len(FramesHeard)
    /\ Len(delivered) >= 2
    /\ delivered[1].entry # delivered[2].entry

\* C12: an end() call on a socket that is closing or closed changes nothing,
\* and whatever the number of end() calls, close() has been requested of the
\* socket at most once.
C12_EndIdempotent ==
    [][endCalls' # endCalls =>
            /\ (socket.readyState \in {"CLOSING", "CLOSED"} => socket' = socket)
            /\ socket'.closeRequests <= 1]_vars

C12_Witness ==
    /\ endCalls >= 2
    /\ socket.closeRequests = 1

\* C13: at most one frame is sent on the socket, it is sent when the
\* connection opens, before any frame can arrive, and it is opcode 2 followed
\* by the packed tag byte and 32 key bytes; a key of another length makes
\* subscribeToEntry fail with no socket created.
C13_OneControlFrame ==
    /\ Len(socket.sent) = (IF socket.opened THEN 1 ELSE 0)
    /\ socket.sent # <<>> =>
            /\ Len(sub.publicKey) = 32
            /\ socket.sent[1] = <<2, 196, 33, 237>> \o sub.publicKey
    /\ frames # <<>> => Len(socket.sent) = 1
    /\ sub.pc # "idle" /\ Len(sub.publicKey) # 32 =>
            /\ sub.pc = "done"
            /\ sub.result.kind = "throw"
            /\ socket = NoSocket

C13_Witness ==
    /\ socket.opened
    /\ frames # <<>>
    /\ socket.sent # <<>>

\* C14: publishEntry of an entry that verifies issues one request, a write
\* whose body is the text form of the entry's pk, data and signature with the
\* entry's revision; it returns what the transport answered; it reads
\* nothing and keeps no entry or revision of its own.
C14_Case(c) ==
    /\ c.op = "publishEntry"
    /\ verifyRegistryEntry(c.arg[1])

C14_PublishAsGiven ==
    \A p \in Procs :
        LET c == calls[p]
            given == c.arg[1]
        IN  C14_Case(c) =>
                /\ Len(c.reqs) = 1
                /\ IsPost(c.reqs[1])
                /\ c.reqs[1].body[1] =
                        [pk |-> base64urlEncode(given.pk), revision |-> given.revision,
                         data |-> base64urlEncode(given.data),
                         signature |-> base64urlEncode(given.signature)]
                /\ Posted(c.reqs[1]) = given
                /\ Acknowledged(c) =>
                        c.pc = "done" /\ c.result = Return(c.postResp[1].data)
                /\ c.resp = Undefined
                /\ c.entry = Undefined
                /\ c.signedEntry = Undefined

C14_Witness ==
    \E p \in Procs :
        /\ C14_Case(calls[p])
        /\ calls[p].result = Return(Some("acknowledged"))

\* C15: getEntry whose read fails with anything but status 404 fails with the
\* error the transport threw for that failure, after that one request.
C15_Case(c) ==
    /\ c.op = "getEntry"
    /\ Answered(c)
    /\ ~IsOk(c.resp[1])
    /\ ~GotNotFound(c)

C15_TransportErrorUnchanged ==
    \A p \in Procs :
        LET c == calls[p] IN
        C15_Case(c) =>
            /\ c.pc = "done"
            /\ c.result = Throw(customInstance(c.resp[1]).error[1])
            /\ c.result.error[1].name = "S5Error"
            /\ Len(c.reqs) = 1

C15_Witness ==
    \E p \in Procs :
        /\ C15_Case(calls[p])
        /\ calls[p].resp[1].kind = "network"
        /\ calls[p].pc = "done"

\* createEntry has returned the entry it fetched without publishing
ReturnedNoOp(c) ==
    /\ c.op = "createEntry"
    /\ c.pc = "done"
    /\ c.result.kind = "return"
    /\ Posts(c) = <<>>

\* createEntry has returned the entry it published
ReturnedPublished(c) ==
    /\ c.op = "createEntry"
    /\ c.pc = "done"
    /\ c.result.kind = "return"
    /\ Len(Posts(c)) = 1

\* C16 as claimed: a createEntry call that ended in the no-op and one that
\* ended in a publish never return equal values.
C16_TellApart ==
    \A p, q \in Procs :
        ReturnedNoOp(calls[p]) /\ ReturnedPublished(calls[q]) =>
            calls[p].result # calls[q].result

\* C17 as claimed: during createEntry the entry object obtained from getEntry
\* keeps the data, revision and signature it was fetched with.
C17_FetchedEntryKept ==
    \A p \in Procs :
        LET c == calls[p] IN
        c.op = "createEntry" /\ GotEntry(c) /\ c.entry # Undefined =>
            c.entry[1] = Fetched(c)

\* C18: the text of a byte string is its unpadded base64url form, four
\* letters of the alphabet for three bytes, with no prefix and no padding
\* letter, and decodes to the byte string; an entry put into the body of a
\* write and read back from that body has the same pk, data, signature and
\* revision.
C18_TextRoundTrip ==
    /\ codec.pc \notin {"idle", "input"} =>
            /\ Len(codec.text) = (4 * Len(codec.x) + 2) \div 3
            /\ \A i \in DOMAIN codec.text : codec.text[i] \in 0..63
            /\ codec.text = Sextets(codec.x)
    /\ codec.pc \notin {"idle", "input", "encoded"} => codec.back = codec.x
    /\ codec.pc = "read" =>
            /\ codec.entry[1].pk = codec.sent[1].pk
            /\ codec.entry[1].data = codec.sent[1].data
            /\ codec.entry[1].signature = codec.sent[1].signature
            /\ codec.entry[1].revision = codec.sent[1].revision

\* a three-byte string whose text begins with the letter of the prefix, and
\* an entry read back
C18_Witness ==
    /\ codec.pc = "read"
    /\ Len(codec.x) = 3
    /\ codec.text[1] = MultibasePrefix

\* C19 as claimed: the promise of every uploadLargeFile call is settled in
\* the end.
C19_EventuallySettles ==
    \A p \in Procs :
        (uploads[p].pc # "idle") ~> (uploads[p].promise # "pending")

\* the resolution requests under way
InFlight == {i \in DOMAIN resolution.promises : resolution.promises[i].state = "pending"}

\* C20 as claimed: at most one resolution request is under way at any time,
\* and no resolution request is made once one has succeeded.
C20_ResolvedOnce ==
    /\ Cardinality(InFlight) <= 1
    /\ \A i \in DOMAIN resolution.promises : ~resolution.promises[i].afterSuccess

\* the first request of call x was answered 401 and the call had loginFn
LoginCase(x) ==
    /\ x.answers # <<>>
    /\ x.answers[1] = HttpResponse(401, Undefined)
    /\ x.sent[1].loginFn

\* C21: a call invokes loginFn at most once and hands at most two requests
\* to axios; loginFn is invoked when the first request is answered 401 and
\* the call has loginFn, and the second request is the first one with loginFn
\* unset, sent once loginFn has resolved; any other failure of a request is
\* thrown as it is, with no further request; every call ends.
C21_Bounded ==
    \A p \in Procs :
        LET x == exec[p] IN
        /\ x.logins <= 1
        /\ Len(x.sent) <= 2
        /\ x.logins = (IF LoginCase(x) THEN 1 ELSE 0)
        /\ Len(x.sent) = 2 =>
                /\ LoginCase(x)
                /\ x.loginOk = Some(TRUE)
                /\ x.sent[2] = [x.sent[1] EXCEPT !.loginFn = FALSE]
        /\ LoginCase(x) /\ x.loginOk = Some(TRUE) /\ x.sent[1].url # Undefined =>
                Len(x.sent) = 2 \/ x.pc = "buildUrl"
        /\ x.answers # <<>> /\ ~IsOk(x.answers[Len(x.answers)])
                /\ (Len(x.answers) = 2 \/ ~LoginCase(x)) =>
                /\ x.pc = "done"
                /\ x.result = Throw(From(AxiosError(x.answers[Len(x.answers)])))
                /\ Len(x.sent) = Len(x.answers)

C22_EmptySelectsDefault ==
    \A p \in Procs :
        LET x == instances[p] IN
        x.pc # "none" /\ x.arg = EmptyString =>
            /\ x.result.kind = "return"
            /\ x.portalUrl = Some(defaultPortalUrl)

\* the value of option k by precedence: of the call, else of the client,
\* else the default
Expected(x, k) ==
    IF x.customOptions[k] # Undefined THEN x.customOptions[k]
    ELSE IF x.clientOptions[k] # Undefined THEN x.clientOptions[k]
    ELSE x.def[k]

\* C25 as claimed: the request of every method is built from the value each
\* option has by precedence; getCidUrl uses the apiKey only.
C25_Precedence ==
    \A p \in Procs :
        LET x == instances[p] IN
        x.op # "none" =>
            /\ x.config[1].auth_token = Expected(x, "apiKey")
            /\ x.op # "getCidUrl" =>
                    /\ x.config[1].Cookie = Expected(x, "customCookie")
                    /\ x.config[1].UserAgent = Expected(x, "customUserAgent")
                    /\ x.config[1].onUploadProgress = Expected(x, "onUploadProgress")
                    /\ x.config[1].onDownloadProgress = Expected(x, "onDownloadProgress")

\* the read of createEntry call c failed: no response, a status that is
\* neither 2xx nor 404, or an entry that does not verify
C23_Case(c) ==
    /\ c.op = "createEntry"
    /\ Answered(c)
    /\ ~GotNotFound(c)
    /\ ~GotEntry(c)

\* C23: a createEntry call whose read failed otherwise than by 404 has ended
\* with the error of the read, the transport's error or the validation error
\* of the entry, has signed nothing and issued no write request.
C23_ReadFailureEndsCall ==
    \A p \in Procs :
        LET c == calls[p] IN
        C23_Case(c) =>
            /\ c.pc = "done"
            /\ c.result =
                    (IF IsOk(c.resp[1]) THEN Throw(throwValidationError("signedEntry"))
                     ELSE Throw(customInstance(c.resp[1]).error[1]))
            /\ c.result = getEntry(c.resp[1])
            /\ Len(c.reqs) = 1
            /\ Posts(c) = <<>>
            /\ c.signedEntry = Undefined
            /\ c.postResp = Undefined

\* a read that got no response, for a key the portal holds nothing of
C23_Witness ==
    \E p \in Procs :
        /\ C23_Case(calls[p])
        /\ calls[p].resp[1] = NetworkFailure
        /\ registry[calls[p].kp] = Undefined
        /\ calls[p].result.kind = "throw"

\* C24: a createEntry call that issued a write request has no result while
\* the request is under way; it returns only when the request was
\* acknowledged, and then the entry it signed, which is the entry of the
\* request; when the request failed it ends with the transport's error for
\* that request and returns nothing.
C24_ReturnAfterAck ==
    \A p \in Procs :
        LET c == calls[p] IN
        c.op = "createEntry" /\ Posts(c) # <<>> =>
            /\ c.pc = "awaitPost" => c.result = NoResult /\ c.postResp = Undefined
            /\ c.result.kind = "return" =>
                    /\ Acknowledged(c)
                    /\ c.result.value = c.signedEntry
                    /\ Posted(Posts(c)[1]) = c.result.value[1]
                    /\ verifyRegistryEntry(c.result.value[1])
            /\ c.postResp # Undefined /\ ~IsOk(c.postResp[1]) =>
                    /\ c.pc = "done"
                    /\ c.result = Throw(customInstance(c.postResp[1]).error[1])
            /\ Acknowledged(c) => c.pc = "done" /\ c.result.kind = "return"

\* the entry returned is the one the portal now serves
C24_Witness ==
    \E p \in Procs :
        /\ calls[p].op = "createEntry"
        /\ Acknowledged(calls[p])
        /\ calls[p].result = Return(calls[p].signedEntry)
        /\ registry[calls[p].kp] = Some(WireEntry(calls[p].signedEntry[1]))

URL(c) == resolution.calls[c]

\* C26 as claimed: a call made after a resolution request failed makes a new
\* request, and when that request has succeeded the call returns, portalUrl()
\* with the URL; a call on a client with a portal URL of its own makes no
\* request, portalUrl() returning that URL.
C26_RetryAfterFailure ==
    \A c \in Clients :
        /\ URL(c).afterFailure /\ URL(c).customPortalUrl = Undefined
                /\ URL(c).pc \notin {"idle", "awaitTry"} =>
                /\ URL(c).issued # 0
                /\ URL(c).pc = "done"
                        /\ resolution.promises[URL(c).issued].state = "fulfilled" =>
                      URL(c).result =
                        (IF URL(c).op = "portalUrl" THEN Return(Some(PortalApiUrl))
                         ELSE Return(Undefined))
        /\ URL(c).pc # "idle" /\ URL(c).customPortalUrl # Undefined =>
                /\ URL(c).issued = 0
                /\ URL(c).pc = "done"
                /\ URL(c).op = "portalUrl" => URL(c).result = Return(URL(c).customPortalUrl)

\* C27 as claimed: the entry getEntry returns has the public key getEntry
\* was called with.
C27_ReturnedKeyIsRequested ==
    \A p \in Procs :
        LET c == calls[p] IN
        c.op = "getEntry" /\ c.pc = "done" /\ c.result.kind = "return"
                /\ c.result.value # Undefined =>
            c.result.value[1].pk = c.arg[1]

\* the callback invocations that frames fs make, each frame invoking the
\* callbacks registered when it arrived, in the order of their registration
RECURSIVE Deliveries(_)
Deliveries(fs) ==
    IF fs = <<>> THEN <<>>
    ELSE LET f == fs[Len(fs)] IN
         Deliveries(SubSeq(fs, 1, Len(fs) - 1)) \o
            [i \in 1..f.listeners |->
                [cb |-> listeners[i], entry |-> deserializeRegistryEntry(f.data)]]

\* C28: the callback invocations are those of the frames at their arrival
\* and no others: a frame that arrived with no callback registered has
\* invoked nothing, then or later, and every other frame has invoked each
\* callback registered at its arrival once.
C28_NoBuffering ==
    /\ delivered = Deliveries(frames)
    /\ \A i \in DOMAIN frames : frames[i].listeners <= Len(listeners)
    /\ listeners # <<>> /\ (\A i \in DOMAIN frames : frames[i].listeners = 0) =>
            delivered = <<>>

\* frames arrived with no callback, with one and with two
C28_Witness ==
    /\ Len(frames) = 3
    /\ frames[1].listeners = 0
    /\ frames[2].listeners = 1
    /\ frames[3].listeners = 2
    /\ Len(delivered) = 3

\* the hashing loop of u is over
Hashed(u) == u.cid # Undefined

\* C29 as claimed: the loop ends after at most one turn per chunk and one
\* more; the chunks fed to the hasher are the bytes of the file, each once
\* and in order; every progress event has bytes <= total, the events' bytes
\* never decrease, and the last event has bytes = total.
C29_HashProgress ==
    \A p \in Procs :
        LET u == uploads[p] IN
        /\ u.chunks <= (u.size \div chunkSize) + 1
        /\ \A i \in DOMAIN u.fed :
            /\ u.fed[i].from = (IF i = 1 THEN 0 ELSE u.fed[i - 1].to)
            /\ u.fed[i].from <= u.fed[i].to
        /\ Hashed(u) => u.fed[Len(u.fed)].to = u.size
        /\ \A i \in DOMAIN u.progress :
            /\ u.progress[i].bytes <= u.progress[i].total
            /\ i > 1 => u.progress[i - 1].bytes <= u.progress[i].bytes
        /\ Hashed(u) => u.progress[Len(u.progress)].bytes = u.size

\* createEntry call c has ended, its requests were answered by the portal,
\* and what it read was nothing or an entry of its own key
C30_Case(c) ==
    /\ c.op = "createEntry"
    /\ c.pc = "done"
    /\ GotNotFound(c) \/ (GotEntry(c) /\ Fetched(c).pk = publicKey(c.kp))
    /\ c.postResp # Undefined => Acknowledged(c)

\* the entry call c is to leave at the portal: the one it read when that has
\* the target data, else the target data at the revision given when it read
\* nothing, at the next revision when it read other data
C30_Target(c) ==
    IF GotNotFound(c)
    THEN signRegistryEntry(c.kp, toRegistryEntry(c.cid), c.revision)
    ELSE IF Fetched(c).data = toRegistryEntry(c.cid) THEN Fetched(c)
    ELSE signRegistryEntry(c.kp, toRegistryEntry(c.cid), Fetched(c).revision + 1)

\* C30 as claimed: as long as no createEntry call has started while another
\* one was in progress, a call that read the target data has written
\* nothing and returns the entry it read, and a call that read nothing or
\* other data has had one write accepted, at the initial revision or at the
\* revision it read plus one: the revision of the portal's entry grows by
\* one with every call whose target data differed.
C30_SequentialIdempotent ==
    ~overlapped =>
        \A p \in Procs :
            LET c == calls[p] IN
            C30_Case(c) =>
                /\ c.result = Return(Some(C30_Target(c)))
                /\ IF GotEntry(c) /\ Fetched(c).data = toRegistryEntry(c.cid)
                   THEN Posts(c) = <<>>
                   ELSE /\ Len(Posts(c)) = 1
                        /\ \E i \in DOMAIN accepted :
                            /\ accepted[i].proc = p
                            /\ accepted[i].body = WireEntry(C30_Target(c))

====
